---------------------------- MODULE Spec2Model ----------------------------
(***************************************************************************)
(* Model of the interactive Bezier curve component (BezierCanvas) and of   *)
(* the spring integrator it drives.                                        *)
(*                                                                         *)
(* Number representation.  The program computes on JavaScript numbers.     *)
(* Here every quantity is an integer count of a fixed unit:                *)
(*   time      : TicksPerMs units per millisecond (so 1000/targetFps is an *)
(*               integer for the slider rates used, and a delta time in    *)
(*               seconds is a count of 1/(1000*TicksPerMs) s);             *)
(*   length    : PxScale units per pixel in the component,                 *)
(*               ProbeScale units per pixel in the integrator probe;       *)
(*   velocity  : length units per second.                                  *)
(* A product with a fraction is rounded to the nearest unit (RoundDiv).    *)
(***************************************************************************)
EXTENDS Integers, Sequences, FiniteSets, TLC

VARIABLES
    rect,               \* container.getBoundingClientRect(): <<width, height>> in px
    targetFps,          \* prop targetFps (Index.tsx state)
    fps,                \* React state fps (value given to setFps)
    rendered,           \* fps value captured by the animate closure the setup effect holds
    listening,          \* setup effect active: window listeners registered
    animationRef,       \* animationRef.current
    lastTimeRef,        \* lastTimeRef.current
    lastRenderTimeRef,  \* lastRenderTimeRef.current
    p0Ref, p3Ref,       \* fixed endpoints
    spring1Ref,         \* spring1Ref.current: <<>> is null, <<s>> holds SpringState s
    spring2Ref,
    baseP1Ref, baseP2Ref,
    fpsCountRef, fpsTimeRef,
    frameIntervalRef,
    rafQueue,           \* callbacks requested for the next frame: [id, cb]
    frameQueue,         \* callbacks of the frame being run that have not run yet
    nextHandle,         \* next handle requestAnimationFrame returns
    now,                \* timestamp of the latest frame, -1 before the first
    surface,            \* what the last drawn frame shows, <<>> before the first
    ev,                 \* history: the last operation, its inputs and the state before it
    trace,              \* history: <<timestamp, interval, outcome>> of every callback run
    inputs,             \* number of user inputs (pointer, resize, slider) so far
    setups,             \* number of runs of the setup effect so far
    probe,              \* the spring of the integrator probe (SpecProbe)
    call                \* the last call of a library function: its arguments and result (SpecLib)

vars == <<rect, targetFps, fps, rendered, listening, animationRef, lastTimeRef,
          lastRenderTimeRef, p0Ref, p3Ref, spring1Ref, spring2Ref, baseP1Ref,
          baseP2Ref, fpsCountRef, fpsTimeRef, frameIntervalRef, rafQueue,
          frameQueue, nextHandle, now, surface, ev, trace, inputs, setups, probe, call>>

-----------------------------------------------------------------------------
(* Bounds of the model *)

MaxInputs == 2
MaxSetups == 2

(* Units *)

TicksPerMs == 3
PxScale == 10
ProbeScale == 1000

TicksPerSecond == 1000 * TicksPerMs

-----------------------------------------------------------------------------
(* Arithmetic on scaled integers *)

Abs(n) == IF n < 0 THEN -n ELSE n

Min(a, b) == IF a < b THEN a ELSE b

\* n / d rounded to the nearest integer (d > 0), halves away from zero
RoundDiv(n, d) ==
    IF n >= 0 THEN (2 * n + d) \div (2 * d)
    ELSE -((2 * (-n) + d) \div (2 * d))

Pt(px, py) == [x |-> px, y |-> py]

Zero == Pt(0, 0)

-----------------------------------------------------------------------------
(* lib/physics *)

DEFAULT_SPRING_CONFIG == [stiffness |-> 120, damping |-> 12]

createSpringState(initialPosition) ==
    [position |-> initialPosition, velocity |-> Zero, target |-> initialPosition]

\* faulty variant: the step returns the position it was given
updateSpringStale(state, config, deltaTime) ==
    LET accelerationX == -config.stiffness * (state.position.x - state.target.x)
                         - config.damping * state.velocity.x
        accelerationY == -config.stiffness * (state.position.y - state.target.y)
                         - config.damping * state.velocity.y
    IN  [position |-> state.position,
         velocity |-> Pt(state.velocity.x
                           + RoundDiv(accelerationX * deltaTime, TicksPerSecond),
                         state.velocity.y
                           + RoundDiv(accelerationY * deltaTime, TicksPerSecond)),
         target |-> state.target]

\* faulty variant: the position advances by the whole velocity, whatever the
\* time step
updateSpringUnscaled(state, config, deltaTime) ==
    LET accelerationX == -config.stiffness * (state.position.x - state.target.x)
                         - config.damping * state.velocity.x
        accelerationY == -config.stiffness * (state.position.y - state.target.y)
                         - config.damping * state.velocity.y
        newVelocity == Pt(state.velocity.x
                            + RoundDiv(accelerationX * deltaTime, TicksPerSecond),
                          state.velocity.y
                            + RoundDiv(accelerationY * deltaTime, TicksPerSecond))
    IN  [position |-> Pt(state.position.x + newVelocity.x,
                         state.position.y + newVelocity.y),
         velocity |-> newVelocity, target |-> state.target]

\* deltaTime counts 1/TicksPerSecond s
updateSpring(state, config, deltaTime) ==
    LET displacementX == state.position.x - state.target.x
        displacementY == state.position.y - state.target.y
        accelerationX == -config.stiffness * displacementX
                         - config.damping * state.velocity.x
        accelerationY == -config.stiffness * displacementY
                         - config.damping * state.velocity.y
        newVelocity == Pt(state.velocity.x
                            + RoundDiv(accelerationX * deltaTime, TicksPerSecond),
                          state.velocity.y
                            + RoundDiv(accelerationY * deltaTime, TicksPerSecond))
        newPosition == Pt(state.position.x
                            + RoundDiv(newVelocity.x * deltaTime, TicksPerSecond),
                          state.position.y
                            + RoundDiv(newVelocity.y * deltaTime, TicksPerSecond))
    IN  [position |-> newPosition, velocity |-> newVelocity, target |-> state.target]

\* faulty variant: a spring in motion keeps the target it has
setSpringTargetAtRest(state, target) ==
    IF state.velocity = Zero THEN [state EXCEPT !.target = target] ELSE state

setSpringTarget(state, target) == [state EXCEPT !.target = target]

applyImpulse(state, impulse) ==
    [state EXCEPT !.velocity = Pt(state.velocity.x + impulse.x,
                                  state.velocity.y + impulse.y)]

\* sqrt(vx^2 + vy^2) < threshold, decided on the squares (sqrt is increasing);
\* the components are compared first so that the squares stay small
MagnitudeBelow(vx, vy, threshold) ==
    /\ Abs(vx) < threshold
    /\ Abs(vy) < threshold
    /\ vx * vx + vy * vy < threshold * threshold

isSettled(state, threshold) ==
    /\ MagnitudeBelow(state.velocity.x, state.velocity.y, threshold)
    /\ MagnitudeBelow(state.position.x - state.target.x,
                      state.position.y - state.target.y, threshold)

-----------------------------------------------------------------------------
(* BezierCanvas: environment *)

\* container sizes in px (width, height)
Sizes == {<<500, 400>>, <<800, 600>>}

\* pointer positions in px, in the container's coordinates: in the 500x400
\* layout the first is equidistant from both bases (off the centre), the
\* second nearer P2, the third nearer P1; the second is the centre of the
\* 800x600 layout.  All lie a multiple of 50 px from either centre, so that
\* the scaled offsets are whole pixels.
Pointers == {<<400, 150>>, <<400, 300>>, <<200, 100>>}

\* slider values (min 10, max 120, step 5)
Rates == {30, 60, 120}

\* the timestamps (ms) at which the browser may run a frame; a run takes any
\* increasing selection of them
Schedule == {ms * TicksPerMs : ms \in {0, 5, 10, 17, 34, 1034}}

Stamps == {t \in Schedule : t > now}

None == <<>>

Some(v) == <<v>>

Get(ref) == ref[1]

-----------------------------------------------------------------------------
(* BezierCanvas: helpers of the handlers *)

\* 1000 / targetFps
Interval(rate) == (1000 * TicksPerMs) \div rate

\* faulty variant: the effect leaves the interval it finds
targetFpsEffectStale(rate) == frameIntervalRef

\* the effect on [targetFps]
targetFpsEffect(rate) == Interval(rate)

\* faulty variant: a layout that re-anchors the targets of springs that exist and
\* keeps their motion
initializePositionsKeepMotion(width, height) ==
    LET margin == 100 * PxScale
        centerY == RoundDiv(height * PxScale, 2)
        third == RoundDiv(width * PxScale - 2 * margin, 3)
        baseP1 == Pt(margin + third, centerY - 150 * PxScale)
        baseP2 == Pt(margin + 2 * third, centerY + 150 * PxScale)
    IN  [p0 |-> Pt(margin, centerY),
         p3 |-> Pt(width * PxScale - margin, centerY),
         baseP1 |-> baseP1,
         baseP2 |-> baseP2,
         spring1 |-> IF spring1Ref = None THEN Some(createSpringState(baseP1))
                     ELSE Some(setSpringTarget(Get(spring1Ref), baseP1)),
         spring2 |-> IF spring2Ref = None THEN Some(createSpringState(baseP2))
                     ELSE Some(setSpringTarget(Get(spring2Ref), baseP2))]

initializePositions(width, height) ==
    LET margin == 100 * PxScale
        centerY == RoundDiv(height * PxScale, 2)
        third == RoundDiv(width * PxScale - 2 * margin, 3)
        baseP1 == Pt(margin + third, centerY - 150 * PxScale)
        baseP2 == Pt(margin + 2 * third, centerY + 150 * PxScale)
    IN  [p0 |-> Pt(margin, centerY),
         p3 |-> Pt(width * PxScale - margin, centerY),
         baseP1 |-> baseP1,
         baseP2 |-> baseP2,
         spring1 |-> Some(createSpringState(baseP1)),
         spring2 |-> Some(createSpringState(baseP2))]

\* the square of getDistance; the handler only compares two distances, and
\* sqrt is increasing
getDistanceSq(p1, p2) == (p1.x - p2.x) * (p1.x - p2.x) + (p1.y - p2.y) * (p1.y - p2.y)

\* (mouse - centre) * sensitivity, sensitivity = 0.3
pointerOffset(mousePos, size) ==
    LET centerX == RoundDiv(size[1] * PxScale, 2)
        centerY == RoundDiv(size[2] * PxScale, 2)
    IN  Pt(RoundDiv((mousePos.x - centerX) * 3, 10),
           RoundDiv((mousePos.y - centerY) * 3, 10))

\* faulty variant: the comparison turned round
nearestIsP1Inverted(distToP1, distToP2) == distToP1 > distToP2

\* faulty variant: P1 also takes the ties
nearestIsP1OrTie(distToP1, distToP2) == distToP1 <= distToP2

\* if (distToP1 < distToP2)
nearestIsP1(distToP1, distToP2) == distToP1 < distToP2

\* base + offset * (0.8, 1.2)
targetP1(base, offset) ==
    Pt(base.x + RoundDiv(offset.x * 8, 10), base.y + RoundDiv(offset.y * 12, 10))

\* base + offset * (0.8, 0.8)
targetP2(base, offset) ==
    Pt(base.x + RoundDiv(offset.x * 8, 10), base.y + RoundDiv(offset.y * 8, 10))

\* faulty variant: the comparison turned round
throttledInverted(elapsed, interval) == elapsed > interval

\* if (elapsed < frameIntervalRef.current) return
throttled(elapsed, interval) == elapsed < interval

\* faulty variant: lastTick reset to the timestamp outright
nextRenderTimeReset(timestamp, elapsed, interval) == timestamp

\* timestamp - (elapsed % frameIntervalRef.current)
nextRenderTime(timestamp, elapsed, interval) == timestamp - (elapsed % interval)

\* faulty variant: the delta measured from the drift-corrected lastTick
deltaTimeFromLastRender(timestamp, lastTime) ==
    IF lastRenderTimeRef # 0 THEN timestamp - lastRenderTimeRef ELSE 16 * TicksPerMs

\* lastTimeRef.current ? (timestamp - lastTimeRef.current) / 1000 : 0.016
deltaTimeOf(timestamp, lastTime) ==
    IF lastTime # 0 THEN timestamp - lastTime ELSE 16 * TicksPerMs

\* Math.min(deltaTime, 0.033)
capDelta(deltaTime) == Min(deltaTime, 33 * TicksPerMs)

\* faulty variant: the window is compared with 0 instead of 1000 ms
fpsWindowOverAtOnce(timestamp, fpsTime) == timestamp - fpsTime >= 0

\* if (timestamp - fpsTimeRef.current >= 1000)
fpsWindowOver(timestamp, fpsTime) == timestamp - fpsTime >= 1000 * TicksPerMs

requestAnimationFrame(queue, handle, cb) == queue \cup {[id |-> handle, cb |-> cb]}

cancelAnimationFrame(queue, handle) == {c \in queue : c.id # handle}

\* faulty variant: a cleanup that cancels nothing
cleanupFramesNone(queue, handle) == queue

\* faulty variant: the cleanup cancels the handle before the latest one
cleanupFramesStale(queue, handle) == cancelAnimationFrame(queue, handle - 1)

\* the setup effect's cleanup: cancelAnimationFrame(animationRef.current)
cleanupFrames(queue, handle) == cancelAnimationFrame(queue, handle)

\* the frame the draw calls of a tick put on the canvas
drawFrame(p0, p1, p2, p3, shownFps) ==
    [p0 |-> p0, p1 |-> p1, p2 |-> p2, p3 |-> p3, fps |-> shownFps]

\* the state an operation finds
Snapshot ==
    [rect |-> rect, targetFps |-> targetFps, fps |-> fps, rendered |-> rendered,
     listening |-> listening, animationRef |-> animationRef,
     lastTime |-> lastTimeRef, lastRenderTime |-> lastRenderTimeRef,
     p0 |-> p0Ref, p3 |-> p3Ref, spring1 |-> spring1Ref, spring2 |-> spring2Ref,
     baseP1 |-> baseP1Ref, baseP2 |-> baseP2Ref,
     fpsCount |-> fpsCountRef, fpsTime |-> fpsTimeRef,
     frameInterval |-> frameIntervalRef, rafQueue |-> rafQueue, surface |-> surface]

Event(op, t, p, fired, dt, active) ==
    [op |-> op, t |-> t, p |-> p, fired |-> fired, dt |-> dt, active |-> active,
     pre |-> Snapshot]

-----------------------------------------------------------------------------
(* BezierCanvas: state after the first render, before any effect has run *)

\* no library function has been called
NoCall == [fn |-> "none", args |-> <<>>, result |-> <<>>, origin |-> <<>>, count |-> 0]

Init ==
    /\ rect \in Sizes
    /\ targetFps = 60
    /\ fps = 0
    /\ rendered = 0
    /\ listening = FALSE
    /\ animationRef = 0
    /\ lastTimeRef = 0
    /\ lastRenderTimeRef = 0
    /\ p0Ref = Zero
    /\ p3Ref = Zero
    /\ spring1Ref = None
    /\ spring2Ref = None
    /\ baseP1Ref = Zero
    /\ baseP2Ref = Zero
    /\ fpsCountRef = 0
    /\ fpsTimeRef = 0
    /\ frameIntervalRef = Interval(60)
    /\ rafQueue = {}
    /\ frameQueue = {}
    /\ nextHandle = 1
    /\ now = -1
    /\ surface = None
    /\ trace = <<>>
    /\ inputs = 0
    /\ setups = 0
    /\ probe = createSpringState(Zero)
    /\ call = NoCall
    /\ ev = Event("init", -1, Zero, FALSE, 0, 0)

-----------------------------------------------------------------------------
(* BezierCanvas: operations *)

\* The body of the setup effect, run on the queue its predecessor's cleanup
\* left: handleResize(), the listeners, requestAnimationFrame(animate).
SetupEffect(queue) ==
    LET layout == initializePositions(rect[1], rect[2])
    IN  /\ p0Ref' = layout.p0
        /\ p3Ref' = layout.p3
        /\ baseP1Ref' = layout.baseP1
        /\ baseP2Ref' = layout.baseP2
        /\ spring1Ref' = layout.spring1
        /\ spring2Ref' = layout.spring2
        /\ listening' = TRUE
        /\ rafQueue' = requestAnimationFrame(queue, nextHandle, fps)
        /\ animationRef' = nextHandle
        /\ nextHandle' = nextHandle + 1
        /\ rendered' = fps
        /\ setups' = setups + 1

\* The effects of a mount: the effect on [targetFps], then the setup effect.
Mount ==
    /\ ~listening
    /\ frameQueue = {}
    /\ setups < MaxSetups
    /\ frameIntervalRef' = targetFpsEffect(targetFps)
    /\ SetupEffect(rafQueue)
    /\ ev' = Event("mount", now, Zero, FALSE, 0, 0)
    /\ UNCHANGED <<rect, targetFps, fps, lastTimeRef, lastRenderTimeRef,
                   fpsCountRef, fpsTimeRef, frameQueue, now, surface, trace,
                   inputs, probe, call>>

\* The cleanup of the setup effect, run on its own (unmount), possibly again.
Teardown ==
    /\ setups > 0
    /\ frameQueue = {}
    /\ listening' = FALSE
    /\ rafQueue' = cleanupFrames(rafQueue, animationRef)
    /\ ev' = Event("teardown", now, Zero, FALSE, 0, 0)
    /\ UNCHANGED <<rect, targetFps, fps, rendered, animationRef, lastTimeRef,
                   lastRenderTimeRef, p0Ref, p3Ref, spring1Ref, spring2Ref,
                   baseP1Ref, baseP2Ref, fpsCountRef, fpsTimeRef,
                   frameIntervalRef, frameQueue, nextHandle, now, surface,
                   trace, inputs, setups, probe, call>>

\* React commits the render that follows setFps: drawInfo and animate are new
\* callbacks, so the setup effect is cleaned up and run again.
Rerender ==
    /\ listening
    /\ frameQueue = {}
    /\ fps # rendered
    /\ setups < MaxSetups
    /\ SetupEffect(cleanupFrames(rafQueue, animationRef))
    /\ ev' = Event("effect", now, Zero, FALSE, 0, 0)
    /\ UNCHANGED <<rect, targetFps, fps, lastTimeRef, lastRenderTimeRef,
                   fpsCountRef, fpsTimeRef, frameIntervalRef, frameQueue, now,
                   surface, trace, inputs, probe, call>>

\* window 'resize': handleResize
Resize(size) ==
    LET layout == initializePositions(size[1], size[2])
    IN  /\ listening
        /\ frameQueue = {}
        /\ inputs < MaxInputs
        /\ inputs' = inputs + 1
        /\ rect' = size
        /\ p0Ref' = layout.p0
        /\ p3Ref' = layout.p3
        /\ baseP1Ref' = layout.baseP1
        /\ baseP2Ref' = layout.baseP2
        /\ spring1Ref' = layout.spring1
        /\ spring2Ref' = layout.spring2
        /\ ev' = Event("resize", now, Zero, FALSE, 0, 0)
        /\ UNCHANGED <<targetFps, fps, rendered, listening, animationRef,
                       lastTimeRef, lastRenderTimeRef, fpsCountRef, fpsTimeRef,
                       frameIntervalRef, rafQueue, frameQueue, nextHandle, now,
                       surface, trace, setups, probe, call>>

\* window 'mousemove' / 'touchmove': handlePointerMove
PointerMove(mouse) ==
    LET mousePos == Pt(mouse[1] * PxScale, mouse[2] * PxScale)
        s1 == Get(spring1Ref)
        s2 == Get(spring2Ref)
        distToP1 == getDistanceSq(mousePos, s1.position)
        distToP2 == getDistanceSq(mousePos, s2.position)
        offset == pointerOffset(mousePos, rect)
    IN  /\ listening
        /\ frameQueue = {}
        /\ inputs < MaxInputs
        /\ inputs' = inputs + 1
        /\ spring1Ref # None
        /\ spring2Ref # None
        /\ IF nearestIsP1(distToP1, distToP2)
           THEN /\ spring1Ref' = Some(setSpringTarget(s1, targetP1(baseP1Ref, offset)))
                /\ spring2Ref' = Some(setSpringTarget(s2, baseP2Ref))
                /\ ev' = Event("pointer", now, mousePos, FALSE, 0, 1)
           ELSE /\ spring2Ref' = Some(setSpringTarget(s2, targetP2(baseP2Ref, offset)))
                /\ spring1Ref' = Some(setSpringTarget(s1, baseP1Ref))
                /\ ev' = Event("pointer", now, mousePos, FALSE, 0, 2)
        /\ UNCHANGED <<rect, targetFps, fps, rendered, listening, animationRef,
                       lastTimeRef, lastRenderTimeRef, p0Ref, p3Ref, baseP1Ref,
                       baseP2Ref, fpsCountRef, fpsTimeRef, frameIntervalRef,
                       rafQueue, frameQueue, nextHandle, now, surface, trace,
                       setups, probe, call>>

\* The slider sets the prop targetFps; the effect on [targetFps] runs.
SetTargetFps(rate) ==
    /\ listening
    /\ frameQueue = {}
    /\ inputs < MaxInputs
    /\ inputs' = inputs + 1
    /\ rate # targetFps
    /\ targetFps' = rate
    /\ frameIntervalRef' = targetFpsEffect(rate)
    /\ ev' = Event("rate", now, Zero, FALSE, 0, 0)
    /\ UNCHANGED <<rect, fps, rendered, listening, animationRef, lastTimeRef,
                   lastRenderTimeRef, p0Ref, p3Ref, spring1Ref, spring2Ref,
                   baseP1Ref, baseP2Ref, fpsCountRef, fpsTimeRef, rafQueue,
                   frameQueue, nextHandle, now, surface, trace, setups,
                   probe, call>>

\* The browser starts a frame at timestamp t: the callbacks requested so far
\* are the ones this frame runs.
BeginFrame(t) ==
    /\ frameQueue = {}
    /\ now' = t
    /\ frameQueue' = rafQueue
    /\ rafQueue' = {}
    /\ ev' = Event("frame", t, Zero, FALSE, 0, 0)
    /\ UNCHANGED <<rect, targetFps, fps, rendered, listening, animationRef,
                   lastTimeRef, lastRenderTimeRef, p0Ref, p3Ref, spring1Ref,
                   spring2Ref, baseP1Ref, baseP2Ref, fpsCountRef, fpsTimeRef,
                   frameIntervalRef, nextHandle, surface, trace, inputs, setups, probe, call>>

\* animate(timestamp), for the oldest callback of the running frame
Animate ==
    /\ frameQueue # {}
    /\ LET c == CHOOSE q \in frameQueue : \A r \in frameQueue : q.id <= r.id
           timestamp == now
           elapsed == timestamp - lastRenderTimeRef
           deltaTime == deltaTimeOf(timestamp, lastTimeRef)
           dt == capDelta(deltaTime)
           publish == fpsWindowOver(timestamp, fpsTimeRef)
       IN  /\ frameQueue' = frameQueue \ {c}
           /\ rafQueue' = requestAnimationFrame(rafQueue, nextHandle, c.cb)
           /\ animationRef' = nextHandle
           /\ nextHandle' = nextHandle + 1
           /\ IF spring1Ref = None \/ spring2Ref = None
              THEN /\ ev' = Event("signal", timestamp, Zero, FALSE, 0, 0)
                   /\ trace' = Append(trace, <<timestamp, frameIntervalRef, "idle">>)
                   /\ UNCHANGED <<lastRenderTimeRef, lastTimeRef, fpsCountRef,
                                  fpsTimeRef, fps, spring1Ref, spring2Ref, surface>>
              ELSE IF throttled(elapsed, frameIntervalRef)
              THEN /\ ev' = Event("signal", timestamp, Zero, FALSE, 0, 0)
                   /\ trace' = Append(trace, <<timestamp, frameIntervalRef, "skip">>)
                   /\ UNCHANGED <<lastRenderTimeRef, lastTimeRef, fpsCountRef,
                                  fpsTimeRef, fps, spring1Ref, spring2Ref, surface>>
              ELSE /\ lastRenderTimeRef' = nextRenderTime(timestamp, elapsed, frameIntervalRef)
                   /\ lastTimeRef' = timestamp
                   /\ fpsCountRef' = IF publish THEN 0 ELSE fpsCountRef + 1
                   /\ fpsTimeRef' = IF publish THEN timestamp ELSE fpsTimeRef
                   /\ fps' = IF publish THEN fpsCountRef + 1 ELSE fps
                   /\ spring1Ref' = Some(updateSpring(Get(spring1Ref), DEFAULT_SPRING_CONFIG, dt))
                   /\ spring2Ref' = Some(updateSpring(Get(spring2Ref), DEFAULT_SPRING_CONFIG, dt))
                   /\ surface' = Some(drawFrame(p0Ref, Get(spring1Ref').position,
                                                Get(spring2Ref').position, p3Ref, c.cb))
                   /\ ev' = Event("signal", timestamp, Zero, TRUE, dt, 0)
                   /\ trace' = Append(trace, <<timestamp, frameIntervalRef, "tick">>)
    /\ UNCHANGED <<rect, targetFps, rendered, listening, p0Ref, p3Ref, baseP1Ref,
                   baseP2Ref, frameIntervalRef, now, inputs, setups, probe, call>>

Next ==
    \/ Mount
    \/ Teardown
    \/ Rerender
    \/ \E size \in Sizes : Resize(size)
    \/ \E mouse \in Pointers : PointerMove(mouse)
    \/ \E rate \in Rates : SetTargetFps(rate)
    \/ \E t \in Stamps : BeginFrame(t)
    \/ Animate

Spec == Init /\ [][Next]_vars

-----------------------------------------------------------------------------
(* Helpers of the properties *)

Front(seq) == SubSeq(seq, 1, Len(seq) - 1)

\* timestamp of the last fired tick in a trace, -1 if none fired
RECURSIVE LastTick(_)
LastTick(tr) ==
    IF tr = <<>> THEN -1
    ELSE IF tr[Len(tr)][3] = "tick" THEN tr[Len(tr)][1]
    ELSE LastTick(Front(tr))

\* the last operation ran animate with both springs initialised
Signalled == ev.op = "signal" /\ ev.pre.spring1 # None /\ ev.pre.spring2 # None

\* animate ran as a fired tick / as a skipped signal
Fired == Signalled /\ ev.fired

Skipped == Signalled /\ ~ev.fired

\* the burst 0, 5, 10, 17, 34 ms of repaint signals, all at target rate 60
Burst == <<0, 5 * TicksPerMs, 10 * TicksPerMs, 17 * TicksPerMs, 34 * TicksPerMs>>

IsBurst ==
    /\ Len(trace) = Len(Burst)
    /\ \A i \in 1..Len(trace) : trace[i][1] = Burst[i] /\ trace[i][2] = Interval(60)

PositionOf(ref) == Get(ref).position

VelocityOf(ref) == Get(ref).velocity

TargetOf(ref) == Get(ref).target

-----------------------------------------------------------------------------
(* C1 *)

\* C1 (frame gating): a repaint signal at timestamp t, springs initialised,
\* fires a tick iff t - lastTick >= targetIntervalMs; a skipped signal leaves
\* the springs, the canvas, lastTick, the previous-tick timestamp and the FPS
\* counter as they were and only re-arms the callback; at rate 60 the burst
\* 0, 5, 10, 17, 34 ms fires at 17 and 34 only.
FrameGating ==
    /\ Signalled =>
         /\ ev.fired <=> (ev.t - ev.pre.lastRenderTime >= ev.pre.frameInterval)
         /\ ev.fired => lastTimeRef = ev.t /\ surface # None
         /\ trace[Len(trace)] =
              <<ev.t, ev.pre.frameInterval, IF ev.fired THEN "tick" ELSE "skip">>
         /\ rafQueue = {[id |-> animationRef, cb |-> rendered]}
         /\ animationRef = ev.pre.animationRef + 1
    /\ Skipped =>
         /\ spring1Ref = ev.pre.spring1
         /\ spring2Ref = ev.pre.spring2
         /\ surface = ev.pre.surface
         /\ lastRenderTimeRef = ev.pre.lastRenderTime
         /\ lastTimeRef = ev.pre.lastTime
         /\ fpsCountRef = ev.pre.fpsCount
         /\ fpsTimeRef = ev.pre.fpsTime
         /\ fps = ev.pre.fps
    /\ IsBurst =>
         <<trace[1][3], trace[2][3], trace[3][3], trace[4][3], trace[5][3]>>
           = <<"skip", "skip", "skip", "tick", "tick">>

\* the burst has run: three skips, then ticks at 17 ms and 34 ms
FrameGatingWitness ==
    /\ IsBurst
    /\ Fired
    /\ ev.t = 34 * TicksPerMs
    /\ trace[3][3] = "skip"
    /\ trace[4][3] = "tick"

-----------------------------------------------------------------------------
(* C2 *)

\* C2 (delta time): on every fired tick at timestamp t the integrator gets
\* dt = min(t - previous firing timestamp, 33 ms), the previous firing being
\* the last fired tick (skips do not count; not the drift-corrected lastTick),
\* and 16 ms on the very first fired tick; so dt never exceeds 33 ms.
DeltaTimeClamped ==
    Fired =>
        LET prior == LastTick(Front(trace))
            expected == IF prior < 0 THEN 16 * TicksPerMs
                        ELSE Min(ev.t - prior, 33 * TicksPerMs)
        IN  /\ ev.dt = expected
            /\ ev.dt <= 33 * TicksPerMs
            /\ spring1Ref = Some(updateSpring(Get(ev.pre.spring1),
                                              DEFAULT_SPRING_CONFIG, expected))
            /\ spring2Ref = Some(updateSpring(Get(ev.pre.spring2),
                                              DEFAULT_SPRING_CONFIG, expected))

\* a tick after a gap of a second, whose dt was clamped to 33 ms, with a
\* skipped signal between it and the firing tick before it, and a spring
\* in motion
DeltaTimeWitness ==
    /\ Fired
    /\ Len(trace) >= 3
    /\ trace[Len(trace) - 1][3] = "skip"
    /\ LastTick(Front(trace)) > 0
    /\ ev.t - LastTick(Front(trace)) > 33 * TicksPerMs
    /\ ev.dt = 33 * TicksPerMs
    /\ LastTick(Front(trace)) # ev.pre.lastRenderTime
    /\ spring1Ref # ev.pre.spring1

-----------------------------------------------------------------------------
(* C3 *)

\* C3 (drift correction): a tick fired at t sets lastTick to
\* t - ((t - lastTick) mod targetIntervalMs); after it 0 <= t - lastTick <
\* targetIntervalMs, and lastTick has advanced by a whole positive number of
\* intervals.
DriftCorrection ==
    Fired =>
        LET interval == ev.pre.frameInterval
            advance == lastRenderTimeRef - ev.pre.lastRenderTime
        IN  /\ lastRenderTimeRef =
                 ev.t - ((ev.t - ev.pre.lastRenderTime) % interval)
            /\ 0 <= ev.t - lastRenderTimeRef
            /\ ev.t - lastRenderTimeRef < interval
            /\ advance >= interval
            /\ advance % interval = 0

\* a fired tick that carried a remainder over and absorbed several intervals
DriftCorrectionWitness ==
    /\ Fired
    /\ ev.t - lastRenderTimeRef > 0
    /\ lastRenderTimeRef - ev.pre.lastRenderTime > ev.pre.frameInterval
    /\ ev.pre.lastRenderTime > 0

-----------------------------------------------------------------------------
(* C4 *)

\* the centre of the surface, in length units
CentreOf(size) == Pt((size[1] * PxScale) \div 2, (size[2] * PxScale) \div 2)

\* t = base + (p - centre) * 0.3 * (sx/10, sy/10), stated without division
DisplacedBy(t, base, p, centre, sx, sy) ==
    /\ 100 * (t.x - base.x) = 3 * sx * (p.x - centre.x)
    /\ 100 * (t.y - base.y) = 3 * sy * (p.y - centre.y)

\* squared distances from the pointer of the last pointer update to the
\* positions the springs had when it arrived
PointerDist1 == getDistanceSq(ev.p, PositionOf(ev.pre.spring1))

PointerDist2 == getDistanceSq(ev.p, PositionOf(ev.pre.spring2))

\* C4 (nearest wins): on a pointer update at p the spring whose current
\* position is strictly nearer to p becomes active, its target set to
\* base + (p - centre) * 0.3 scaled by (0.8, 1.2) for P1 and (0.8, 0.8) for P2;
\* the other spring's target is its own base; no position or velocity changes.
NearestWins ==
    ev.op = "pointer" =>
        /\ PositionOf(spring1Ref) = PositionOf(ev.pre.spring1)
        /\ PositionOf(spring2Ref) = PositionOf(ev.pre.spring2)
        /\ VelocityOf(spring1Ref) = VelocityOf(ev.pre.spring1)
        /\ VelocityOf(spring2Ref) = VelocityOf(ev.pre.spring2)
        /\ PointerDist1 < PointerDist2 =>
             /\ ev.active = 1
             /\ DisplacedBy(TargetOf(spring1Ref), baseP1Ref, ev.p, CentreOf(rect), 8, 12)
             /\ TargetOf(spring2Ref) = baseP2Ref
        /\ PointerDist2 < PointerDist1 =>
             /\ ev.active = 2
             /\ DisplacedBy(TargetOf(spring2Ref), baseP2Ref, ev.p, CentreOf(rect), 8, 8)
             /\ TargetOf(spring1Ref) = baseP1Ref

\* a pointer update that P1 wins by its current position although it is not
\* the nearer by base position, with P2 in motion and away from its base
NearestWinsWitness ==
    /\ ev.op = "pointer"
    /\ PointerDist1 < PointerDist2
    /\ getDistanceSq(ev.p, baseP1Ref) >= getDistanceSq(ev.p, baseP2Ref)
    /\ VelocityOf(spring2Ref) # Zero
    /\ PositionOf(spring2Ref) # baseP2Ref
    /\ TargetOf(ev.pre.spring2) # baseP2Ref
    /\ TargetOf(spring2Ref) = baseP2Ref
    /\ TargetOf(spring1Ref) # baseP1Ref

-----------------------------------------------------------------------------
(* C5 *)

\* the layout of a surface of the given size, stated without division
LaidOut(size) ==
    LET margin == 100 * PxScale
    IN  /\ p0Ref.x = margin
        /\ 2 * p0Ref.y = size[2] * PxScale
        /\ p3Ref.x = size[1] * PxScale - margin
        /\ p3Ref.y = p0Ref.y
        /\ 3 * (baseP1Ref.x - margin) = size[1] * PxScale - 2 * margin
        /\ baseP1Ref.y = p0Ref.y - 150 * PxScale
        /\ 3 * (baseP2Ref.x - margin) = 2 * (size[1] * PxScale - 2 * margin)
        /\ baseP2Ref.y = p0Ref.y + 150 * PxScale

AtRest(ref, base) ==
    ref = Some([position |-> base, velocity |-> Zero, target |-> base])

\* C5 (resize hard reset): a resize, whatever the springs are doing, lays
\* P0, P3 and both bases out from the new size and leaves each spring with
\* zero velocity and position = target = its new base.
ResizeHardReset ==
    ev.op = "resize" =>
        /\ LaidOut(rect)
        /\ AtRest(spring1Ref, baseP1Ref)
        /\ AtRest(spring2Ref, baseP2Ref)

\* a resize to another size that met a displaced target and a moving spring
ResizeWitness ==
    /\ ev.op = "resize"
    /\ rect # ev.pre.rect
    /\ VelocityOf(ev.pre.spring1) # Zero
    /\ PositionOf(ev.pre.spring1) # ev.pre.baseP1
    /\ TargetOf(ev.pre.spring1) # ev.pre.baseP1

-----------------------------------------------------------------------------
(* C6 *)

SameMotion(ref, before) ==
    /\ PositionOf(ref) = PositionOf(before)
    /\ VelocityOf(ref) = VelocityOf(before)

\* C6 (spring lifecycle): springs are (re)created at rest on their base only
\* by initialization and by a resize; between two resizes position and
\* velocity change only by the one integrator step per spring of a fired
\* tick; a pointer update, a skipped signal, the publication of a new FPS
\* value and the re-registration of the animation loop leave them alone.
SpringLifecycle ==
    /\ ev.op \in {"mount", "resize"} =>
         /\ AtRest(spring1Ref, baseP1Ref)
         /\ AtRest(spring2Ref, baseP2Ref)
    /\ Fired =>
         /\ spring1Ref = Some(updateSpring(Get(ev.pre.spring1), DEFAULT_SPRING_CONFIG, ev.dt))
         /\ spring2Ref = Some(updateSpring(Get(ev.pre.spring2), DEFAULT_SPRING_CONFIG, ev.dt))
    /\ (ev.op \in {"pointer", "rate", "effect", "frame", "teardown"} \/ Skipped) =>
         /\ ev.pre.spring1 # None => SameMotion(spring1Ref, ev.pre.spring1)
         /\ ev.pre.spring2 # None => SameMotion(spring2Ref, ev.pre.spring2)

-----------------------------------------------------------------------------
(* C7 *)

-----------------------------------------------------------------------------
(* C8 *)

\* C8 (tie-break): a pointer update equidistant from the current positions
\* of both movable points makes the same spring, P2, active whatever the
\* targets were and whichever spring was active before; P1 goes to its base.
TieBreak ==
    (ev.op = "pointer" /\ PointerDist1 = PointerDist2) =>
        /\ ev.active = 2
        /\ DisplacedBy(TargetOf(spring2Ref), baseP2Ref, ev.p, CentreOf(rect), 8, 8)
        /\ TargetOf(spring1Ref) = baseP1Ref

\* a tie that arrives when P1 was the active spring, its target displaced
TieBreakWitness ==
    /\ ev.op = "pointer"
    /\ PointerDist1 = PointerDist2
    /\ TargetOf(ev.pre.spring1) # ev.pre.baseP1
    /\ TargetOf(ev.pre.spring2) = ev.pre.baseP2
    /\ TargetOf(spring2Ref) # baseP2Ref
    /\ TargetOf(spring1Ref) = baseP1Ref

-----------------------------------------------------------------------------
(* C9 *)

\* C9 (teardown): the cleanup cancels the pending callback, so that while
\* the loop is torn down no callback is pending, no callback runs and a
\* frame changes neither springs nor canvas; a cleanup run again leaves the
\* state the first one left.
TeardownCancels ==
    /\ ~listening => rafQueue = {} /\ frameQueue = {}
    /\ ev.op = "signal" => ev.pre.listening
    /\ (ev.op = "frame" /\ ~listening) =>
         /\ spring1Ref = ev.pre.spring1
         /\ spring2Ref = ev.pre.spring2
         /\ surface = ev.pre.surface
    /\ (ev.op = "teardown" /\ ~ev.pre.listening) => Snapshot = ev.pre

\* a second cleanup in a row, after ticks have drawn and a callback was
\* cancelled by the first
TeardownWitness ==
    /\ ev.op = "teardown"
    /\ ~ev.pre.listening
    /\ setups > 0
    /\ surface # None
    /\ animationRef = nextHandle - 1

-----------------------------------------------------------------------------
(* The integrator probe: one spring, created at (0,0), whose target is set  *)
(* once and which is then stepped with dt = 0.016 s.                        *)

componentVars ==
    <<rect, targetFps, fps, rendered, listening, animationRef, lastTimeRef,
      lastRenderTimeRef, p0Ref, p3Ref, spring1Ref, spring2Ref, baseP1Ref,
      baseP2Ref, fpsCountRef, fpsTimeRef, frameIntervalRef, rafQueue,
      frameQueue, nextHandle, now, surface, ev, trace, inputs, setups, call>>

ProbeTarget == Pt(100 * ProbeScale, 0)

\* the threshold 0.1, in length units
ProbeThreshold == ProbeScale \div 10

ProbeSetTarget ==
    /\ probe.target = Zero
    /\ probe' = setSpringTarget(probe, ProbeTarget)
    /\ UNCHANGED componentVars

ProbeStep ==
    /\ probe' = updateSpring(probe, DEFAULT_SPRING_CONFIG, 16 * TicksPerMs)
    /\ UNCHANGED componentVars

ProbeNext == ProbeSetTarget \/ ProbeStep

\* the step calls are repeated for as long as they change the spring
SpecProbe == Init /\ [][ProbeNext]_vars /\ WF_vars(ProbeStep)

\* (velocity, position - target) both shorter than 0.1
ProbeAtRest ==
    /\ MagnitudeBelow(probe.velocity.x, probe.velocity.y, ProbeThreshold)
    /\ MagnitudeBelow(probe.position.x - ProbeTarget.x,
                      probe.position.y - ProbeTarget.y, ProbeThreshold)

\* C10 (spring convergence): with stiffness 120 and damping 12, a spring
\* created at (0,0) whose target is set to (100,0) and which is stepped with
\* dt = 0.016 and nothing else eventually has its position within 0.1 of
\* (100,0), its speed below 0.1, and isSettled(state, 0.1) true.
SpringConverges ==
    (probe.target = ProbeTarget) ~> (ProbeAtRest /\ isSettled(probe, ProbeThreshold))

\* the spring has travelled from (0,0) and come to rest at (100,0)
SpringConvergesWitness ==
    /\ probe.target = ProbeTarget
    /\ isSettled(probe, ProbeThreshold)
    /\ ProbeAtRest
    /\ probe.position.x > 99 * ProbeScale

(***************************************************************************)
(* lib/bezier: the curve functions, called on their own                    *)
(***************************************************************************)

\* largest number of steps a curve is sampled with
MaxSteps == 3

\* largest number of times a step call is repeated on its own result
MaxRepeats == 3

\* the parameter t = i / steps, kept as a fraction; 0 / 0 is NaN
Ratio(i, steps) == [num |-> i, den |-> steps]

\* a point whose coordinates are both NaN: it equals no point
NaNPoint == [nan |-> TRUE]

\* one coordinate of B(t) for t = num / den, rounded to a whole unit
bezierCoordinate(c0, c1, c2, c3, t) ==
    LET mt == t.den - t.num
    IN  RoundDiv(mt * mt * mt * c0 + 3 * mt * mt * t.num * c1
                   + 3 * mt * t.num * t.num * c2 + t.num * t.num * t.num * c3,
                 t.den * t.den * t.den)

\* bezierPoint(p0, p1, p2, p3, t): every term of the sum is NaN when t is
bezierPoint(p0, p1, p2, p3, t) ==
    IF t.den = 0
    THEN NaNPoint
    ELSE Pt(bezierCoordinate(p0.x, p1.x, p2.x, p3.x, t),
            bezierCoordinate(p0.y, p1.y, p2.y, p3.y, t))

\* a faulty variant: the loop stops before i = steps
sampleBezierCurveOpen(p0, p1, p2, p3, steps) ==
    [k \in 1..steps |-> bezierPoint(p0, p1, p2, p3, Ratio(k - 1, steps))]

\* sampleBezierCurve(p0, p1, p2, p3, steps): the points pushed for
\* i = 0, 1, ..., steps, in that order
sampleBezierCurve(p0, p1, p2, p3, steps) ==
    [k \in 1..(steps + 1) |-> bezierPoint(p0, p1, p2, p3, Ratio(k - 1, steps))]

\* control points the curve functions are called with
ControlPoints == {Pt(0, 0), Pt(100, -50), Pt(-30, 200)}

\* spring states and configurations the step function is called with
StepPositions == {Zero, Pt(1000, -500)}
StepVelocities == {Zero, Pt(-300, 700)}
StepTargets == {Zero, Pt(2000, 100)}
StepConfigs == {DEFAULT_SPRING_CONFIG, [stiffness |-> 50, damping |-> 5]}
StepDeltas == {0, 16 * TicksPerMs}

\* everything a library call leaves alone
libFrame ==
    <<rect, targetFps, fps, rendered, listening, animationRef, lastTimeRef,
      lastRenderTimeRef, p0Ref, p3Ref, spring1Ref, spring2Ref, baseP1Ref,
      baseP2Ref, fpsCountRef, fpsTimeRef, frameIntervalRef, rafQueue,
      frameQueue, nextHandle, now, surface, ev, trace, inputs, setups, probe>>

\* a caller samples a curve
CallSample ==
    \E p0 \in ControlPoints, p1 \in ControlPoints, p2 \in ControlPoints,
       p3 \in ControlPoints, steps \in 0..MaxSteps :
        /\ call' = [fn |-> "sampleBezierCurve",
                    args |-> <<p0, p1, p2, p3, steps>>,
                    result |-> sampleBezierCurve(p0, p1, p2, p3, steps),
                    origin |-> <<>>, count |-> 1]
        /\ UNCHANGED libFrame

\* a caller steps a spring once
CallStep ==
    \E position \in StepPositions, velocity \in StepVelocities,
       target \in StepTargets, config \in StepConfigs, deltaTime \in StepDeltas :
        LET state == [position |-> position, velocity |-> velocity, target |-> target]
        IN  /\ call' = [fn |-> "updateSpring",
                        args |-> <<state, config, deltaTime>>,
                        result |-> updateSpring(state, config, deltaTime),
                        origin |-> state, count |-> 1]
            /\ UNCHANGED libFrame

\* the caller steps the spring again, from the state the last call returned
CallStepAgain ==
    /\ call.fn = "updateSpring"
    /\ call.count < MaxRepeats
    /\ call' = [call EXCEPT !.args = <<call.result, call.args[2], call.args[3]>>,
                            !.result = updateSpring(call.result, call.args[2], call.args[3]),
                            !.count = call.count + 1]
    /\ UNCHANGED libFrame

LibNext == CallSample \/ CallStep \/ CallStepAgain

SpecLib == Init /\ [][LibNext]_vars

\* the arguments of the last curve sampling
SampleP0 == call.args[1]
SampleP3 == call.args[4]
SampleSteps == call.args[5]
Sampled == call.fn = "sampleBezierCurve"

\* the result has steps + 1 points, starts at P0 and ends at P3, and its
\* k-th point is the point of the curve at t = (k - 1) / steps
SampleShape ==
    /\ Len(call.result) = SampleSteps + 1
    /\ call.result[1] = SampleP0
    /\ call.result[Len(call.result)] = SampleP3
    /\ \A k \in 1..Len(call.result) :
           call.result[k] = bezierPoint(call.args[1], call.args[2], call.args[3],
                                        call.args[4], Ratio(k - 1, SampleSteps))

\* C11 as stated: for any control points and any non-negative integer steps
\* the sampling returns exactly steps + 1 points in increasing-t order, the
\* first equal to P0 and the last equal to P3.
SampleEndpointsAnySteps == Sampled => SampleShape

\* C11 (amended): for any control points and any positive integer steps
\* (steps >= 1) the sampling returns exactly steps + 1 points in increasing-t
\* order, the first equal to P0 and the last equal to P3; with steps = 0 it
\* returns one point whose coordinates are NaN.
SampleEndpoints ==
    Sampled =>
        IF SampleSteps >= 1 THEN SampleShape ELSE call.result = <<NaNPoint>>

\* a curve from P0 to a different P3 sampled with an interior point
SampleEndpointsWitness ==
    /\ Sampled
    /\ SampleSteps >= 2
    /\ SampleP0 # SampleP3
    /\ Len(call.result) = SampleSteps + 1
    /\ call.result[2] \notin {SampleP0, SampleP3}
    /\ call.result[Len(call.result)] = SampleP3

\* the last call stepped a spring with dt = 0
SteppedByZero == call.fn = "updateSpring" /\ call.args[3] = 0

\* C13 (zero step): updateSpring(state, config, 0) returns a state with the
\* position, velocity and target of its input, for every state and config,
\* and any number of such steps in a row leaves the first input unchanged.
StepZeroNoOp ==
    SteppedByZero =>
        /\ call.result.position = call.args[1].position
        /\ call.result.velocity = call.args[1].velocity
        /\ call.result.target = call.args[1].target
        /\ call.result = call.origin

\* a moving spring away from its target, stepped by zero several times
StepZeroNoOpWitness ==
    /\ SteppedByZero
    /\ call.count >= 2
    /\ call.origin.velocity # Zero
    /\ call.origin.position # call.origin.target
    /\ call.args[2] # DEFAULT_SPRING_CONFIG
    /\ call.result = call.origin

-----------------------------------------------------------------------------
(* C12 *)

\* number of fired ticks of the trace with a timestamp in (after, upto]
TicksIn(tr, after, upto) ==
    Cardinality({i \in 1..Len(tr) :
                   tr[i][3] = "tick" /\ tr[i][1] > after /\ tr[i][1] <= upto})

\* number of fired ticks of the trace with a timestamp in [from, upto]
TicksWithin(tr, from, upto) ==
    Cardinality({i \in 1..Len(tr) :
                   tr[i][3] = "tick" /\ tr[i][1] >= from /\ tr[i][1] <= upto})

\* the last operation was a fired tick that published a new FPS value
Published == Fired /\ ev.t - ev.pre.fpsTime >= 1000 * TicksPerMs

\* the counting and the windows of the FPS metric
FpsMechanism ==
    /\ fpsCountRef = TicksIn(trace, fpsTimeRef, now)
    /\ (ev.op = "signal" /\ ~ev.fired) =>
           /\ fpsCountRef = ev.pre.fpsCount
           /\ fpsTimeRef = ev.pre.fpsTime
           /\ fps = ev.pre.fps
    /\ (Fired /\ ~Published) =>
           /\ fpsCountRef = ev.pre.fpsCount + 1
           /\ fpsTimeRef = ev.pre.fpsTime
           /\ fps = ev.pre.fps
    /\ Published =>
           /\ fps = ev.pre.fpsCount + 1
           /\ fps = TicksIn(trace, ev.pre.fpsTime, ev.t)
           /\ fpsCountRef = 0
           /\ fpsTimeRef = ev.t

\* C12 as stated: fired ticks are counted and skipped signals are not; the
\* first fired tick at least 1000 ms after the start of the window publishes
\* the count of the window (itself included), zeroes the count and starts a
\* new window at its timestamp; so every published value is the number of
\* ticks fired during one wall-clock second (the second ending at the
\* publication).
FpsPerSecond ==
    /\ FpsMechanism
    /\ Published => fps = TicksWithin(trace, ev.t - 1000 * TicksPerMs, ev.t)

\* C12 (amended): fired ticks are counted and skipped signals are not; the
\* first fired tick at least 1000 ms after the start of the window publishes
\* the count of the window (itself included), zeroes the count and starts a
\* new window at its timestamp; so every published value is the number of
\* ticks fired during one window, which lasts at least 1000 ms and is not
\* bounded above (the first window starts at timestamp 0).
FpsWindow ==
    /\ FpsMechanism
    /\ Published => ev.t - ev.pre.fpsTime >= 1000 * TicksPerMs

\* three ticks and a skipped signal in a window of 1034 ms: 3 is published
FpsWindowWitness ==
    /\ Published
    /\ fps = 3
    /\ ev.t - ev.pre.fpsTime > 1000 * TicksPerMs
    /\ fpsCountRef = 0
    /\ fpsTimeRef = ev.t
    /\ \E i \in 1..Len(trace) : trace[i][3] = "skip"

-----------------------------------------------------------------------------
(* C14 *)

\* the callbacks that are requested and have not run
Pending == rafQueue \cup frameQueue

\* C14 (single loop): at most one repaint callback is pending in every
\* reachable state, whatever the interleaving of repaint signals, state
\* updates that replace animate and the cleanup and re-setup they cause; the
\* pending callback is the one animationRef names, and no repaint signal runs
\* animate more than once.
SingleLoop ==
    /\ Cardinality(Pending) <= 1
    /\ \A c \in Pending : c.id = animationRef
    /\ (listening /\ frameQueue = {}) => Cardinality(rafQueue) = 1
    /\ \A i \in 1..Len(trace) : \A j \in 1..Len(trace) :
           trace[i][1] = trace[j][1] => i = j

\* the setup effect has just been cleaned up and run again after a published
\* FPS value, the loop having fired and skipped before: the callback of the
\* old animate is gone and one callback, of the new animate, is pending
SingleLoopWitness ==
    /\ ev.op = "effect"
    /\ Cardinality(ev.pre.rafQueue) = 1
    /\ Cardinality(rafQueue) = 1
    /\ rafQueue # ev.pre.rafQueue
    /\ \A c \in rafQueue : c.id = animationRef /\ c.cb = fps
    /\ \A c \in ev.pre.rafQueue : c.cb # fps
    /\ \E i \in 1..Len(trace) : trace[i][3] = "skip"
    /\ \E i \in 1..Len(trace) : trace[i][3] = "tick"

-----------------------------------------------------------------------------
(* C15 *)

\* both springs exist
Initialised == spring1Ref # None /\ spring2Ref # None

\* C15 (at most one displaced point): in every state reached after the
\* initialisation by pointer moves, fired or skipped ticks and resizes, at
\* least one of the two springs has a target equal to its own base position.
OneDisplaced ==
    Initialised =>
        \/ TargetOf(spring1Ref) = baseP1Ref
        \/ TargetOf(spring2Ref) = baseP2Ref

\* a pointer move has displaced P2 and sent P1, displaced by an earlier move
\* and in motion since, back to its base
OneDisplacedWitness ==
    /\ ev.op = "pointer"
    /\ ev.active = 2
    /\ Get(ev.pre.spring1).target # ev.pre.baseP1
    /\ VelocityOf(spring1Ref) # Zero
    /\ TargetOf(spring1Ref) = baseP1Ref
    /\ TargetOf(spring2Ref) # baseP2Ref

=============================================================================
